---- MODULE Spec2Model ----
(***************************************************************************)
(* Model of level_relationship, the walk-forward regression allocation     *)
(* rule of infertrade/algos/community/allocations.py.                      *)
(*                                                                         *)
(* Numbers are exact rationals <<n, d>> (d > 0, lowest terms); <<0, 0>>    *)
(* is the undefined value (NaN).  A square root is kept symbolically as    *)
(* rat + coef * sqrt(rad).  Rows are indexed 0 .. N-1 as in the source.    *)
(***************************************************************************)
EXTENDS Integers, Sequences, FiniteSets, TLC

\* ------------------------------------------------------------------------
\* Exact arithmetic
\* ------------------------------------------------------------------------
Abs(i) == IF i < 0 THEN -i ELSE i

RECURSIVE GCD(_, _)
GCD(a, b) == IF b = 0 THEN a ELSE GCD(b, a % b)

Norm(n, d) ==
    LET g == GCD(Abs(n), Abs(d))
        s == IF d < 0 THEN -1 ELSE 1
    IN  <<s * (n \div g), s * (d \div g)>>

R(i) == <<i, 1>>
Zero == <<0, 1>>
One == <<1, 1>>
NaN == <<0, 0>>
IsNaN(a) == a[2] = 0

RAdd(a, b) ==
    IF IsNaN(a) \/ IsNaN(b) THEN NaN
    ELSE IF a[2] = 1 /\ b[2] = 1 THEN <<a[1] + b[1], 1>>
    ELSE IF a[1] = 0 THEN b
    ELSE IF b[1] = 0 THEN a
    ELSE IF a[2] = b[2] THEN Norm(a[1] + b[1], a[2])
    ELSE LET g == GCD(a[2], b[2])
             l == (a[2] \div g) * b[2]
         IN  Norm(a[1] * (l \div a[2]) + b[1] * (l \div b[2]), l)

RNeg(a) == <<-a[1], a[2]>>
RSub(a, b) == RAdd(a, RNeg(b))

RMul(a, b) ==
    IF IsNaN(a) \/ IsNaN(b) THEN NaN
    ELSE IF a[1] = 0 \/ b[1] = 0 THEN Zero
    ELSE IF a[2] = 1 /\ b[2] = 1 THEN <<a[1] * b[1], 1>>
    ELSE LET g1 == GCD(Abs(a[1]), b[2])
             g2 == GCD(Abs(b[1]), a[2])
         IN  <<(a[1] \div g1) * (b[1] \div g2), (a[2] \div g2) * (b[2] \div g1)>>

\* Floating-point division: x / 0 is inf or nan, here the undefined value.
RDiv(a, b) ==
    IF IsNaN(a) \/ IsNaN(b) \/ b[1] = 0 THEN NaN
    ELSE RMul(a, IF b[1] < 0 THEN <<-b[2], -b[1]>> ELSE <<b[2], b[1]>>)

\* Comparisons with an undefined operand are false, as for NaN.
RLess(a, b) == ~IsNaN(a) /\ ~IsNaN(b) /\ RSub(a, b)[1] < 0

\* rat + coef * sqrt(rad), rad >= 0
Surd(r, c, m) == [rat |-> r, coef |-> c, rad |-> m]
Sqrt(m) == Surd(Zero, IF m = Zero THEN Zero ELSE One, m)
SOfR(r) == Surd(r, Zero, Zero)
SAddR(x, q) == Surd(RAdd(x.rat, q), x.coef, x.rad)
SMulR(x, q) == Surd(RMul(x.rat, q), RMul(x.coef, q), x.rad)
SIsRational(x) == x.coef = Zero \/ x.rad = Zero
\* sign of rat + coef * sqrt(rad): -1, 0, 1
SSign(x) ==
    LET sr == IF x.rat[1] > 0 THEN 1 ELSE IF x.rat[1] < 0 THEN -1 ELSE 0
        sc == IF SIsRational(x) THEN 0
              ELSE IF x.coef[1] > 0 THEN 1 ELSE -1
        r2 == RMul(x.rat, x.rat)
        c2 == RMul(RMul(x.coef, x.coef), x.rad)
    IN  IF sc = 0 THEN sr
        ELSE IF sr = 0 \/ sr = sc THEN sc
        ELSE IF RLess(c2, r2) THEN sr
        ELSE IF RLess(r2, c2) THEN sc
        ELSE 0
SSquare(x) ==
    Surd(RAdd(RMul(x.rat, x.rat), RMul(RMul(x.coef, x.coef), x.rad)),
         RMul(R(2), RMul(x.rat, x.coef)), x.rad)

\* ------------------------------------------------------------------------
\* Constants of level_relationship
\* ------------------------------------------------------------------------
regression_period == 120
minimum_length_to_calculate == regression_period + 1
forecast_period == 100
kelly_fraction == One
forecast_distance == 1
\* the floor of a zero volatility, 0.01
volatility_floor == <<1, 100>>

\* ------------------------------------------------------------------------
\* Bounds of the model and the input tables it is run on
\* ------------------------------------------------------------------------
\* the longest table has room for MaxWindows full prediction windows
MaxWindows == 2
\* one table ends TailRows rows into its first prediction window
TailRows == 10

MaxLen == regression_period + MaxWindows * forecast_period

\* Too short, one row into a prediction window, a prediction window just
\* filled, and TailRows rows into the first one.
Lengths ==
    {0, 1, regression_period, regression_period + TailRows}
    \cup {n \in minimum_length_to_calculate .. MaxLen :
            (n - regression_period) % forecast_period \in {0, 1}}

\* One period of a price column and of a research column.
PricePatterns == {<<1, 1, 1, 1>>, <<1, 2, 2, 1>>}
ResearchPatterns == {<<0, 0, 0, 0>>, <<2, 0, -1, 0>>, <<1, 0, 0, 0>>}
\* the row at which a column changes from its first to its second pattern
Switches == {forecast_period, regression_period}

Column(n, patA, patB, switch) ==
    [i \in 0 .. n - 1 |->
        IF i < switch THEN R(patA[(i % Len(patA)) + 1])
                      ELSE R(patB[(i % Len(patB)) + 1])]

\* A column the caller did not supply reads as undefined at every row.
AbsentColumn(n) == [i \in 0 .. n - 1 |-> NaN]
SuppliedAllocation(n) == [i \in 0 .. n - 1 |-> R(1000 + i)]
SuppliedSignal(n) == [i \in 0 .. n - 1 |-> R(-7)]

VARIABLES
    dataframe,                  \* the caller's table: a record of columns
    entry,                      \* the table as it was when the call began
    partial_tail,               \* does the generator emit a last window cut at the series end
    pc,                         \* position in level_relationship
    signal_lagged,
    price_pct_chg,
    prediction_indices,
    ii_day,
    std_price,
    std_signal,
    rolling_regression_model,
    volatility,
    rule_recommended_allocation, \* the last iteration's values, by row
    window_allocation           \* every row a window wrote, with the value written

vars == <<dataframe, entry, partial_tail, pc, signal_lagged, price_pct_chg,
          prediction_indices, ii_day, std_price, std_signal,
          rolling_regression_model, volatility, rule_recommended_allocation,
          window_allocation>>

Rows == DOMAIN dataframe.mid
NRows == Cardinality(Rows)

\* a local variable that no statement has assigned yet
Unassigned == SOfR(NaN)
NoModel == [coef |-> NaN, intercept |-> NaN]
IsAssigned(x) == ~IsNaN(x.rat)

Tables ==
    { [price |-> Column(n, pA, pB, sw),
       mid |-> Column(n, pA, pB, sw),
       research_1 |-> Column(n, rA, rB, sw),
       signal |-> IF supplied THEN SuppliedSignal(n) ELSE AbsentColumn(n),
       allocation |-> IF supplied THEN SuppliedAllocation(n) ELSE AbsentColumn(n)] :
        n \in Lengths, pA \in PricePatterns, pB \in PricePatterns,
        rA \in ResearchPatterns, rB \in ResearchPatterns,
        sw \in Switches, supplied \in BOOLEAN }

Init ==
    /\ dataframe \in Tables
    /\ entry = dataframe
    /\ partial_tail \in BOOLEAN
    /\ pc = "entry"
    /\ signal_lagged = <<>>
    /\ price_pct_chg = <<>>
    /\ prediction_indices = <<>>
    /\ ii_day = 0
    /\ std_price = Unassigned
    /\ std_signal = Unassigned
    /\ rolling_regression_model = NoModel
    /\ volatility = Unassigned
    /\ rule_recommended_allocation = <<>>
    /\ window_allocation = <<>>

\* ------------------------------------------------------------------------
\* Utilities of infertrade.utilities.operations
\* ------------------------------------------------------------------------
\* lag(series, shift): row i holds the value of row i - shift
lag(series, shift) ==
    [i \in DOMAIN series |-> IF i >= shift THEN series[i - shift] ELSE Zero]

\* pct_chg(series): (value[i] - value[i-1]) / value[i-1]
pct_chg(series) ==
    [i \in DOMAIN series |->
        IF i >= 1 THEN RDiv(RSub(series[i], series[i - 1]), series[i - 1]) ELSE Zero]

\* a Python range(start, stop)
Range(a, b) == [start |-> a, stop |-> b]
InRange(i, rng) == rng.start <= i /\ i < rng.stop
RangeLen(rng) == IF rng.stop > rng.start THEN rng.stop - rng.start ELSE 0

Min(a, b) == IF a < b THEN a ELSE b

\* The window generator: fit ranges of reg_period rows, each followed by its
\* prediction range of up to forecast rows; prediction ranges tile the series
\* forward from row reg_period.
RECURSIVE WindowsFrom(_, _, _, _, _)
WindowsFrom(i, series_length, reg_period, forecast, cut) ==
    IF i >= series_length \/ (~cut /\ i + forecast > series_length) THEN <<>>
    ELSE <<[model_idx |-> Range(i - reg_period, i),
            prediction_idx |-> Range(i, Min(i + forecast, series_length))]>>
         \o WindowsFrom(i + forecast, series_length, reg_period, forecast, cut)

get_model_prediction_indices(series_length, reg_period, forecast, cut) ==
    WindowsFrom(reg_period, series_length, reg_period, forecast, cut)

\* ------------------------------------------------------------------------
\* numpy and scikit-learn, in exact arithmetic
\* ------------------------------------------------------------------------
\* arr[rng]: the rows of a range, as a sequence
Slice(arr, rng) == [k \in 1 .. RangeLen(rng) |-> arr[rng.start + k - 1]]

\* the sum of s[lo .. hi], by halves
RECURSIVE SumOver(_, _, _)
SumOver(s, lo, hi) ==
    IF lo > hi THEN Zero
    ELSE IF lo = hi THEN s[lo]
    ELSE LET m == (lo + hi) \div 2
         IN  RAdd(SumOver(s, lo, m), SumOver(s, m + 1, hi))
Sum(s) == SumOver(s, 1, Len(s))
Mean(s) == RDiv(Sum(s), R(Len(s)))
Sq(a) == RMul(a, a)

\* np.std: the population standard deviation, sqrt(mean(s^2) - mean(s)^2)
Std(s) ==
    LET m == Mean(s)
    IN  Sqrt(RSub(Mean([k \in DOMAIN s |-> Sq(s[k])]), Sq(m)))

\* LinearRegression().fit(xs, ys): ordinary least squares on one regressor,
\* coef = cov(xs, ys) / var(xs), intercept = mean(ys) - coef * mean(xs)
Fit(xs, ys) ==
    LET mx == Mean(xs)
        my == Mean(ys)
        cxy == RSub(Mean([k \in DOMAIN xs |-> RMul(xs[k], ys[k])]), RMul(mx, my))
        vx == RSub(Mean([k \in DOMAIN xs |-> Sq(xs[k])]), Sq(mx))
        b == RDiv(cxy, vx)
    IN  [coef |-> b, intercept |-> RSub(my, RMul(b, mx))]

\* model.predict at one regressor value
Predict(model, x) == RAdd(model.intercept, RMul(model.coef, x))

mean_squared_error(ys, predictions) ==
    Mean([k \in DOMAIN ys |-> Sq(RSub(ys[k], predictions[k]))])

\* k ** -0.5 for a perfect square k
PowNegHalf(k) == <<1, CHOOSE r \in 1 .. k : r * r = k>>

\* ------------------------------------------------------------------------
\* The body of the loop over prediction_indices
\* ------------------------------------------------------------------------
\* the guard with the signal test left out
PriceOnlyNoVariation(sp, ss) == ~(SSign(sp) > 0)

\* not std_price > 0.0 or not std_signal > 0.0
NoVariation(sp, ss) == ~(SSign(sp) > 0) \/ ~(SSign(ss) > 0)

\* the formula without its final "- 1"
VolatilityNoMinusOne(forecast_horizon_model_error) ==
    SMulR(SAddR(forecast_horizon_model_error, One), PowNegHalf(forecast_distance))

\* ((1 + forecast_horizon_model_error) * (forecast_distance ** -0.5)) - 1
Volatility(forecast_horizon_model_error) ==
    SAddR(SMulR(SAddR(forecast_horizon_model_error, One), PowNegHalf(forecast_distance)),
          RNeg(One))

\* the loop without the floor of a zero volatility
NoFloor(v) == v

\* if volatility == 0: volatility = 0.01
FloorVolatility(v) == IF SSign(v) = 0 THEN SOfR(volatility_floor) ELSE v

\* x / volatility ** 2; volatility ** 2 is rational for every volatility the
\* loop produces (a square root or the floor)
KellyOptimum(x, v) == RDiv(x, SSquare(v).rat)

\* One iteration, for the window w: what it assigns and what it would write.
Iteration(w) ==
    LET regression_period_signal == Slice(signal_lagged, w.model_idx)
        regression_period_price_change == Slice(price_pct_chg, w.model_idx)
        sp == Std(regression_period_price_change)
        ss == Std(regression_period_signal)
        model == Fit(regression_period_signal, regression_period_price_change)
        predictions == [k \in DOMAIN regression_period_signal |->
                            Predict(model, regression_period_signal[k])]
        err == Sqrt(mean_squared_error(regression_period_price_change, predictions))
        computed == Volatility(err)
        vol == FloorVolatility(computed)
        rows == {p \in DOMAIN signal_lagged : InRange(p, w.prediction_idx)}
    IN  IF NoVariation(sp, ss)
        THEN [std_price |-> sp, std_signal |-> ss, fitted |-> FALSE, model |-> NoModel,
              error |-> Unassigned, computed |-> Unassigned, volatility |-> SOfR(One),
              raised |-> FALSE,
              allocation |-> [p \in rows |-> Zero]]
        ELSE [std_price |-> sp, std_signal |-> ss, fitted |-> TRUE, model |-> model,
              error |-> err, computed |-> computed,
              volatility |-> IF SSign(computed) < 0 THEN computed ELSE vol,
              raised |-> SSign(computed) < 0,
              allocation |-> [p \in rows |->
                  RMul(kelly_fraction, KellyOptimum(Predict(model, signal_lagged[p]), vol))]]

\* the assignment replacing the column: rows outside the window become undefined
ReplaceColumn(column, values) ==
    [i \in DOMAIN column |-> IF i \in DOMAIN values THEN values[i] ELSE NaN]

\* the assignment running on from the window to the end of the column
WriteToEnd(column, values) ==
    [i \in DOMAIN column |->
        IF i \in DOMAIN values THEN values[i]
        ELSE IF \E j \in DOMAIN values : j < i
             THEN values[CHOOSE j \in DOMAIN values : \A h \in DOMAIN values : h <= j]
        ELSE column[i]]

\* dataframe.loc[prediction_idx, "allocation"] = values
WriteRows(column, values) ==
    [i \in DOMAIN column |-> IF i \in DOMAIN values THEN values[i] ELSE column[i]]

\* the column left where it is
NoShift(column) == column

\* series.shift(-1)
ShiftBack(column) ==
    [i \in DOMAIN column |-> IF i + 1 \in DOMAIN column THEN column[i + 1] ELSE NaN]

\* the assignment the wrong way round
AssignResearch(df) == [df EXCEPT !.research_1 = df.signal]

\* dataframe["signal"] = dataframe.loc[:, "research_1"]
AssignSignal(df) == [df EXCEPT !.signal = df.research_1]

\* the guard one row too lenient
TooShortOffByOne(n) == n < regression_period

\* len(dataframe["price"]) < minimum_length_to_calculate
TooShort(n) == n < minimum_length_to_calculate

\* a guard that never fires
NoWindowsNever(indices) == Len(indices) < 0

\* not len(prediction_indices) > 0
NoWindows(indices) == ~(Len(indices) > 0)

\* the last row from whatever model is at hand
ValueToUpdateStaleModel(sp, ss, model, vol, last_signal) ==
    IF model # NoModel
    THEN RMul(kelly_fraction, KellyOptimum(Predict(model, last_signal), vol))
    ELSE Zero

\* The value for the last row, from the variables the loop left behind.
ValueToUpdate(sp, ss, model, vol, last_signal) ==
    IF SSign(sp) > 0 /\ SSign(ss) > 0
    THEN RMul(kelly_fraction, KellyOptimum(Predict(model, last_signal), vol))
    ELSE Zero

\* ------------------------------------------------------------------------
\* level_relationship, step by step
\* ------------------------------------------------------------------------
Locals == <<signal_lagged, price_pct_chg, prediction_indices, ii_day, std_price,
            std_signal, rolling_regression_model, volatility,
            rule_recommended_allocation, window_allocation>>

\* lines 108-117: the signal column and the short-series return
Enter ==
    /\ pc = "entry"
    /\ IF TooShort(NRows)
       THEN /\ dataframe' = [AssignSignal(dataframe) EXCEPT
                                !.allocation = [i \in Rows |-> Zero]]
            /\ pc' = "returned"
       ELSE /\ dataframe' = AssignSignal(dataframe)
            /\ pc' = "prepare"
    /\ UNCHANGED <<entry, partial_tail>>
    /\ UNCHANGED Locals

\* lines 119-126: the lagged signal, the price changes and the windows
Prepare ==
    /\ pc = "prepare"
    /\ signal_lagged' = [lag(dataframe.signal, 1) EXCEPT ![0] = Zero]
    /\ price_pct_chg' = [pct_chg(dataframe.mid) EXCEPT ![0] = Zero]
    /\ prediction_indices' =
          get_model_prediction_indices(NRows, regression_period, forecast_period,
                                       partial_tail)
    /\ pc' = IF NoWindows(prediction_indices') THEN "raised_IndexError"
             ELSE IF Len(prediction_indices') > 0 THEN "loop"
             ELSE "shift"
    /\ UNCHANGED <<dataframe, entry, partial_tail, ii_day, std_price, std_signal,
                   rolling_regression_model, volatility, rule_recommended_allocation,
                   window_allocation>>

\* lines 128-178: one iteration of the loop
ProcessWindow ==
    /\ pc = "loop"
    /\ ii_day < Len(prediction_indices)
    /\ \E it \in {Iteration(prediction_indices[ii_day + 1])} :
           /\ std_price' = it.std_price
           /\ std_signal' = it.std_signal
           /\ rolling_regression_model' =
                 IF it.fitted THEN it.model ELSE rolling_regression_model
           /\ volatility' = it.volatility
           /\ IF it.raised
              THEN /\ pc' = "raised_ZeroDivisionError"
                   /\ UNCHANGED <<dataframe, ii_day, rule_recommended_allocation,
                                  window_allocation>>
              ELSE /\ rule_recommended_allocation' = it.allocation
                   /\ dataframe' = [dataframe EXCEPT
                          !.allocation = WriteRows(dataframe.allocation, it.allocation)]
                   /\ window_allocation' = it.allocation @@ window_allocation
                   /\ ii_day' = ii_day + 1
                   /\ pc' = IF ii_day + 1 < Len(prediction_indices) THEN "loop" ELSE "shift"
    /\ UNCHANGED <<entry, partial_tail, signal_lagged, price_pct_chg, prediction_indices>>

\* line 181: the allocation column moves one row back
Shift ==
    /\ pc = "shift"
    /\ dataframe' = [dataframe EXCEPT !.allocation = ShiftBack(dataframe.allocation)]
    /\ pc' = "final"
    /\ UNCHANGED <<entry, partial_tail>>
    /\ UNCHANGED Locals

\* lines 183-193: the last row
FinalPoint ==
    /\ pc = "final"
    /\ IF ~IsAssigned(std_price) \/ ~IsAssigned(std_signal)
          \/ (SSign(std_price) > 0 /\ SSign(std_signal) > 0
              /\ rolling_regression_model = NoModel)
       THEN /\ pc' = "raised_UnboundLocalError"
            /\ UNCHANGED dataframe
       ELSE /\ dataframe' = [dataframe EXCEPT !.allocation[NRows - 1] =
                  ValueToUpdate(std_price, std_signal, rolling_regression_model,
                                volatility, dataframe.signal[NRows - 1])]
            /\ pc' = "returned"
    /\ UNCHANGED <<entry, partial_tail>>
    /\ UNCHANGED Locals

Next == Enter \/ Prepare \/ ProcessWindow \/ Shift \/ FinalPoint

Spec == Init /\ [][Next]_vars

\* ------------------------------------------------------------------------
\* The loop as one function of the table, and the windows taken in any order
\* ------------------------------------------------------------------------
\* the allocation column after the first k iterations of the loop
RECURSIVE LoopWrites(_, _)
LoopWrites(column, k) ==
    IF k = 0 THEN column
    ELSE WriteRows(LoopWrites(column, k - 1),
                   Iteration(prediction_indices[k]).allocation)

\* the allocation column level_relationship returns: the loop left to right,
\* the shift, and the last row from the last window's variables
LoopResult ==
    LET n == Len(prediction_indices)
        last == Iteration(prediction_indices[n])
        shifted == ShiftBack(LoopWrites(entry.allocation, n))
    IN  [shifted EXCEPT ![NRows - 1] =
            ValueToUpdate(last.std_price, last.std_signal, last.model,
                          last.volatility, dataframe.signal[NRows - 1])]

\* window k has been processed: its first prediction row has been written
Processed(k) == prediction_indices[k].prediction_idx.start \in DOMAIN window_allocation

\* the window whose variables the last row is computed from
ResolvesLastRow(k) == k = Len(prediction_indices)

\* lines 128-178 for window k, whichever windows were processed before it
ProcessAnyWindow ==
    /\ pc = "loop"
    /\ \E k \in 1 .. Len(prediction_indices) :
         /\ ~Processed(k)
         /\ \E it \in {Iteration(prediction_indices[k])} :
              /\ ~it.raised
              /\ IF ResolvesLastRow(k)
                 THEN /\ std_price' = it.std_price
                      /\ std_signal' = it.std_signal
                      /\ rolling_regression_model' =
                            IF it.fitted THEN it.model ELSE rolling_regression_model
                      /\ volatility' = it.volatility
                      /\ rule_recommended_allocation' = it.allocation
                 ELSE UNCHANGED <<std_price, std_signal, rolling_regression_model,
                                  volatility, rule_recommended_allocation>>
              /\ dataframe' = [dataframe EXCEPT
                     !.allocation = WriteRows(dataframe.allocation, it.allocation)]
              /\ window_allocation' = it.allocation @@ window_allocation
              /\ ii_day' = ii_day + 1
              /\ pc' = IF ii_day + 1 < Len(prediction_indices) THEN "loop" ELSE "shift"
    /\ UNCHANGED <<entry, partial_tail, signal_lagged, price_pct_chg, prediction_indices>>

NextAnyOrder == Enter \/ Prepare \/ ProcessAnyWindow \/ Shift \/ FinalPoint

\* the tables whose allocation column the caller supplied: a row no window
\* writes then shows in the result
InitAnyOrder == Init /\ dataframe.allocation = SuppliedAllocation(NRows)

SpecAnyOrder == InitAnyOrder /\ [][NextAnyOrder]_vars

\* ------------------------------------------------------------------------
\* Properties
\* ------------------------------------------------------------------------
Windows == prediction_indices
LastWindow == Windows[Len(Windows)]
LongEnough == NRows >= regression_period + 1
PredictionRows(w) == {p \in Rows : InRange(p, w.prediction_idx)}
FitRows(w) == {k \in Rows : InRange(k, w.model_idx)}

\* every row of the fit range holds the same value
Constant(arr, w) == \A k \in FitRows(w) : arr[k] = arr[w.model_idx.start]
Degenerate(w) == Constant(signal_lagged, w) \/ Constant(price_pct_chg, w)

\* the model m leaves no residual on the fit range of w
ZeroResidual(m, w) ==
    \A k \in FitRows(w) : price_pct_chg[k] = Predict(m, signal_lagged[k])

\* the mean squared residual of the model m on the fit range of w
ResidualMSE(m, w) ==
    RDiv(Sum([k \in 1 .. RangeLen(w.model_idx) |->
                Sq(RSub(price_pct_chg[w.model_idx.start + k - 1],
                        Predict(m, signal_lagged[w.model_idx.start + k - 1])))]),
         R(RangeLen(w.model_idx)))

\* forecast / volatility^2 with the volatility the window w must use
SizedBy(m, w, x) ==
    RMul(kelly_fraction,
         RDiv(Predict(m, x),
              IF ZeroResidual(m, w) THEN Sq(volatility_floor) ELSE ResidualMSE(m, w)))

\* C1: a table of fewer than regression_period + 1 rows returns normally with
\* allocation 0.0 in every row; no window is generated and no model is fitted.
ShortSeriesAllZero ==
    (NRows < regression_period + 1 /\ pc # "entry") =>
        /\ pc = "returned"
        /\ \A i \in Rows : dataframe.allocation[i] = Zero
        /\ DOMAIN dataframe.allocation = Rows
        /\ prediction_indices = <<>>
        /\ signal_lagged = <<>>
        /\ ii_day = 0
        /\ rolling_regression_model = NoModel
        /\ ~IsAssigned(std_price)

ShortSeriesReturned ==
    /\ pc = "returned"
    /\ NRows = regression_period
    /\ entry.allocation[0] # Zero
    /\ dataframe.allocation[regression_period - 1] = Zero

\* the value of the last row, from the last window in generator order alone
LastRowValue ==
    IF Degenerate(LastWindow) THEN Zero
    ELSE SizedBy(Fit(Slice(signal_lagged, LastWindow.model_idx),
                     Slice(price_pct_chg, LastWindow.model_idx)),
                 LastWindow, entry.research_1[NRows - 1])

\* C2: after a successful call every value v a window wrote at row p stands at
\* row p - 1, and the last row holds the final-point extrapolation.
ShiftedWindowValues ==
    (pc = "returned" /\ LongEnough) =>
        /\ \A p \in DOMAIN window_allocation :
              p - 1 \in Rows /\ dataframe.allocation[p - 1] = window_allocation[p]
        /\ dataframe.allocation[NRows - 1] = LastRowValue

ShiftedAndLastOverwritten ==
    /\ pc = "returned"
    /\ LongEnough
    /\ NRows - 1 \in DOMAIN window_allocation
    /\ window_allocation[NRows - 1] # dataframe.allocation[NRows - 1]
    /\ \E p, q \in DOMAIN window_allocation :
          /\ window_allocation[p] # window_allocation[q]
          /\ window_allocation[p] # Zero
          /\ dataframe.allocation[p - 1] = window_allocation[p]

\* C3: a window whose lagged signal or whose price change is constant on the fit
\* range fits no model, sets volatility 1.0, writes exactly 0.0 to its rows, and
\* the loop goes on: no call leaves the loop with a window unprocessed.
DegenerateWindowStep ==
    (pc = "loop" /\ Degenerate(Windows[ii_day + 1])) =>
        /\ rolling_regression_model' = rolling_regression_model
        /\ volatility' = SOfR(One)
        /\ \A p \in PredictionRows(Windows[ii_day + 1]) : dataframe'.allocation[p] = Zero
        /\ ii_day' = ii_day + 1
        /\ pc' = IF ii_day + 1 < Len(Windows) THEN "loop" ELSE "shift"

DegenerateWindowZero ==
    /\ [][DegenerateWindowStep]_vars
    /\ [](pc \in {"shift", "final", "returned"} /\ LongEnough => ii_day = Len(Windows))

DegenerateThenFitted ==
    /\ pc = "returned"
    /\ Len(Windows) = 2
    /\ Constant(signal_lagged, Windows[1])
    /\ ~Constant(price_pct_chg, Windows[1])
    /\ ~Degenerate(Windows[2])
    /\ \A p \in PredictionRows(Windows[1]) : window_allocation[p] = Zero
    /\ \E p \in PredictionRows(Windows[2]) : window_allocation[p] # Zero

\* C4: when the generator returns no window for a table that passed the
\* short-series guard, the call raises before any write: no window is processed,
\* nothing is shifted, and the allocation column is as it was on entry.
EmptyWindowsAbort ==
    (LongEnough /\ pc \notin {"entry", "prepare"} /\ Len(prediction_indices) = 0) =>
        /\ pc = "raised_IndexError"
        /\ dataframe.allocation = entry.allocation
        /\ ii_day = 0
        /\ window_allocation = <<>>
        /\ ~IsAssigned(std_price)
        /\ ~IsAssigned(volatility)

EmptyWindowsRaised ==
    /\ pc = "raised_IndexError"
    /\ LongEnough
    /\ ~IsNaN(entry.allocation[0])
    /\ dataframe.allocation = entry.allocation

\* C5 as claimed: only the allocation column changes; price, mid, research_1
\* and signal hold their entry values on every path.
OnlyAllocationChanges ==
    /\ dataframe.price = entry.price
    /\ dataframe.mid = entry.mid
    /\ dataframe.research_1 = entry.research_1
    /\ dataframe.signal = entry.signal

\* C5 as amended: price, mid and research_1 hold their entry values on every
\* path; the signal column is overwritten with the research_1 values by the
\* first statement of the call, whatever it held before.
OnlySignalAndAllocationChange ==
    /\ dataframe.price = entry.price
    /\ dataframe.mid = entry.mid
    /\ dataframe.research_1 = entry.research_1
    /\ pc # "entry" => dataframe.signal = entry.research_1
    /\ pc = "entry" => dataframe = entry

SignalOverwritten ==
    /\ pc = "returned"
    /\ LongEnough
    /\ dataframe.signal # entry.signal
    /\ ~IsNaN(entry.signal[0])
    /\ dataframe.allocation # entry.allocation

\* C6: a fitted window whose regression leaves no residual uses volatility 0.01
\* and writes kelly_fraction * forecast / 0.01^2; a fitted window with a
\* positive RMSE uses the RMSE itself as volatility.
FittedWindowStep ==
    (pc = "loop" /\ ~Degenerate(Windows[ii_day + 1])) =>
        \A w \in {Windows[ii_day + 1]}, m \in {rolling_regression_model'} :
            IF ZeroResidual(m, w)
            THEN /\ volatility' = SOfR(volatility_floor)
                 /\ \A p \in PredictionRows(w) :
                       dataframe'.allocation[p] =
                          RMul(kelly_fraction,
                               RDiv(Predict(m, signal_lagged[p]), <<1, 10000>>))
            ELSE \A mse \in {ResidualMSE(m, w)} :
                 /\ volatility' = Sqrt(mse)
                 /\ \A p \in PredictionRows(w) :
                       dataframe'.allocation[p] =
                          RMul(kelly_fraction, RDiv(Predict(m, signal_lagged[p]), mse))

VolatilityPositive ==
    /\ pc # "raised_ZeroDivisionError"
    /\ IsAssigned(volatility) => SSign(volatility) > 0
    /\ \A p \in DOMAIN window_allocation : ~IsNaN(window_allocation[p])

PositiveRMSEWindow ==
    /\ pc = "shift"
    /\ rolling_regression_model # NoModel
    /\ ~Degenerate(LastWindow)
    /\ ~ZeroResidual(rolling_regression_model, LastWindow)
    /\ volatility = Sqrt(ResidualMSE(rolling_regression_model, LastWindow))

\* C8: the last row depends on the last window in generator order alone: 0.0
\* when that window is degenerate, even after an earlier window fitted a model,
\* and otherwise that window's own model at the last unlagged signal value over
\* that window's floored volatility squared; no unassigned variable is read.
LastRowFromLastWindow ==
    /\ pc # "raised_UnboundLocalError"
    /\ (pc = "returned" /\ LongEnough) =>
          /\ dataframe.allocation[NRows - 1] = LastRowValue
          /\ ~Degenerate(LastWindow) =>
                rolling_regression_model =
                    Fit(Slice(signal_lagged, LastWindow.model_idx),
                        Slice(price_pct_chg, LastWindow.model_idx))

StaleModelNotUsed ==
    /\ pc = "returned"
    /\ LongEnough
    /\ Degenerate(LastWindow)
    /\ rolling_regression_model # NoModel
    /\ Predict(rolling_regression_model, dataframe.signal[NRows - 1]) # Zero
    /\ dataframe.allocation[NRows - 1] = Zero

\* C9 as claimed: past the short-series guard the allocation column starts as a
\* copy of the signal column, and after the call every row holds a value a
\* window computed (shifted) or the final-point value.
PlaceholderFullyOverwritten ==
    /\ pc = "prepare" => dataframe.allocation = dataframe.signal
    /\ (pc = "returned" /\ LongEnough) =>
          \A i \in Rows :
              \/ i = NRows - 1
              \/ /\ i + 1 \in DOMAIN window_allocation
                 /\ dataframe.allocation[i] = window_allocation[i + 1]

\* C9 as amended: past the short-series guard the allocation column is left as
\* the caller supplied it until a window writes; after the call the last row
\* holds the final-point value, a row just before a row some window wrote holds
\* that window's value, and every other row (rows 0 .. regression_period - 2
\* among them) holds what the caller had in the next row, undefined if the
\* caller supplied no allocation column.
UnwrittenRowsKeepEntry ==
    /\ pc = "prepare" => dataframe.allocation = entry.allocation
    /\ (pc = "returned" /\ LongEnough) =>
          /\ \A i \in Rows :
                dataframe.allocation[i] =
                    IF i = NRows - 1 THEN LastRowValue
                    ELSE IF i + 1 \in DOMAIN window_allocation
                         THEN window_allocation[i + 1]
                    ELSE entry.allocation[i + 1]
          /\ \A i \in 0 .. regression_period - 2 :
                i + 1 \notin DOMAIN window_allocation

EntryValueSurvives ==
    /\ pc = "returned"
    /\ LongEnough
    /\ ~IsNaN(entry.allocation[1])
    /\ dataframe.allocation[0] = entry.allocation[1]
    /\ dataframe.allocation[regression_period - 1] # entry.allocation[regression_period]

\* C10: the prediction rows of distinct windows are disjoint, and with the
\* windows processed in any order the returned allocation column is the one the
\* left-to-right loop returns, the last row taken from the last window in
\* generator order.
AnyOrderSameResult ==
    /\ \A j, k \in 1 .. Len(Windows) :
          j # k => PredictionRows(Windows[j]) \cap PredictionRows(Windows[k]) = {}
    /\ (pc = "returned" /\ LongEnough) => dataframe.allocation = LoopResult

SecondWindowFirst ==
    /\ pc = "loop"
    /\ Len(Windows) = 2
    /\ Processed(2)
    /\ ~Processed(1)
    /\ ~IsNaN(entry.allocation[0])
    /\ ~Degenerate(Windows[1])
    /\ \E q \in PredictionRows(Windows[2]) :
          /\ window_allocation[q] # Zero
          /\ dataframe.allocation[q] = window_allocation[q]

====
